---- MODULE Spec2Model ----
(***************************************************************************)
(* Model of the predicate-extraction repository: the verb inverter         *)
(* (get_inverse_verb), the CSV triple inverter (invert_triples) and the    *)
(* RDF serializer of RDFTripleExtractor (to_rdf_format, _to_turtle,        *)
(* _to_n_triples, _to_rdf_xml, _safe_uri).                                 *)
(*                                                                         *)
(* A Python str is modelled as a sequence of one-character strings, so     *)
(* that lower(), endswith(), slicing and re.sub are computed character by  *)
(* character.  Output text is a sequence of chunks: every character that   *)
(* comes from data is a chunk of its own, every piece of an f-string       *)
(* template is one chunk.                                                  *)
(***************************************************************************)
EXTENDS Integers, Sequences, FiniteSets, TLC

VARIABLES
    verb, inverse,            \* get_inverse_verb: argument and return value
    text, safe, resafe,       \* _safe_uri: argument, return value, and the
                              \* return value of a second call on the first
    triples, format, result,  \* to_rdf_format: arguments and outcome
    input_csv, csv_triples,   \* invert_triples: the input file, the list
    output_csv,               \* triples read from it, and the output file
    doc, sent,                \* the parsed document and the sentence at work
    expand,                   \* _expand_noun_phrase: the locals of one call
    extracted,                \* _extract_triples_from_sentence: return value
    sentences, unique_triples \* extract_triples_with_nlp: doc.sents, result

\* the variables of the two extractors
extractorVars == <<doc, sent, expand, extracted, sentences, unique_triples>>

\* the variables of the inverter and the serialiser
writerVars == <<verb, inverse, text, safe, resafe, triples, format, result, input_csv, csv_triples, output_csv>>

vars == <<writerVars, extractorVars>>

\* The value of a result variable before the call it belongs to has returned.
NotCalled == [kind |-> "not called", value |-> <<>>]

\* The value of a result variable after the call has returned v.
Returned(v) == [kind |-> "returned", value |-> v]

\* The value of a result variable after the call has raised exception e.
Raised(e, message) == [kind |-> e, value |-> message]

-----------------------------------------------------------------------------
(* Bounds of the model. *)

\* longest verb enumerated over VerbAlphabet
MaxVerbLen == 3

\* longest text enumerated over TextAlphabet for _safe_uri
MaxTextLen == 3

\* longest triple list handed to to_rdf_format
MaxTriples == 3

\* most data rows in an input file of invert_triples
MaxRows == 2

\* most fields in an enumerated data row
MaxFields == 3

-----------------------------------------------------------------------------
(* Characters and strings. *)

LowerAlpha == <<"a","b","c","d","e","f","g","h","i","j","k","l","m","n","o","p","q","r","s","t","u","v","w","x","y","z">>

UpperAlpha == <<"A","B","C","D","E","F","G","H","I","J","K","L","M","N","O","P","Q","R","S","T","U","V","W","X","Y","Z">>

Digits == {"0","1","2","3","4","5","6","7","8","9"}

\* every string over alphabet A of length at most n
Strings(A, n) == UNION {[1..k -> A] : k \in 0..n}

\* str.lower() on one character
LowerChar(c) ==
    IF \E i \in 1..26 : UpperAlpha[i] = c
    THEN LowerAlpha[CHOOSE i \in 1..26 : UpperAlpha[i] = c]
    ELSE c

\* str.upper() on one character
UpperChar(c) ==
    IF \E i \in 1..26 : LowerAlpha[i] = c
    THEN UpperAlpha[CHOOSE i \in 1..26 : LowerAlpha[i] = c]
    ELSE c

\* str.lower()
lower(s) == [i \in 1..Len(s) |-> LowerChar(s[i])]

\* str.upper()
upper(s) == [i \in 1..Len(s) |-> UpperChar(s[i])]

\* str.endswith(suffix)
endswith(s, suffix) ==
    /\ Len(s) >= Len(suffix)
    /\ SubSeq(s, Len(s) - Len(suffix) + 1, Len(s)) = suffix

\* s[-n:]
LastN(s, n) == IF Len(s) <= n THEN s ELSE SubSeq(s, Len(s) - n + 1, Len(s))

\* s[:-1]
DropLast(s) == SubSeq(s, 1, Len(s) - 1)

-----------------------------------------------------------------------------
(* get_inverse_verb *)

\* the (key, value) pairs of the irregular_verbs dictionary
IrregularEntries ==
    {
       <<<<"a","m">>, <<"i","s"," ","f","o","r">>>>,
       <<<<"i","s">>, <<"i","s"," ","f","o","r">>>>,
       <<<<"a","r","e">>, <<"a","r","e"," ","f","o","r">>>>,
       <<<<"w","a","s">>, <<"w","a","s"," ","f","o","r">>>>,
       <<<<"w","e","r","e">>, <<"w","e","r","e"," ","f","o","r">>>>,
       <<<<"h","a","v","e">>, <<"b","e","l","o","n","g","s"," ","t","o">>>>,
       <<<<"h","a","s">>, <<"b","e","l","o","n","g","s"," ","t","o">>>>,
       <<<<"h","a","d">>, <<"b","e","l","o","n","g","e","d"," ","t","o">>>>,
       <<<<"d","o">>, <<"d","o","n","e"," ","b","y">>>>,
       <<<<"d","o","e","s">>, <<"d","o","n","e"," ","b","y">>>>,
       <<<<"d","i","d">>, <<"d","o","n","e"," ","b","y">>>>,
       <<<<"g","o">>, <<"v","i","s","i","t","e","d"," ","b","y">>>>,
       <<<<"g","o","e","s">>, <<"v","i","s","i","t","e","d"," ","b","y">>>>,
       <<<<"w","e","n","t">>, <<"v","i","s","i","t","e","d"," ","b","y">>>>,
       <<<<"m","a","k","e">>, <<"m","a","d","e"," ","b","y">>>>,
       <<<<"m","a","k","e","s">>, <<"m","a","d","e"," ","b","y">>>>,
       <<<<"m","a","d","e">>, <<"m","a","d","e"," ","b","y">>>>,
       <<<<"s","e","e">>, <<"s","e","e","n"," ","b","y">>>>,
       <<<<"s","e","e","s">>, <<"s","e","e","n"," ","b","y">>>>,
       <<<<"s","a","w">>, <<"s","e","e","n"," ","b","y">>>>,
       <<<<"w","r","i","t","e">>, <<"w","r","i","t","t","e","n"," ","b","y">>>>,
       <<<<"w","r","i","t","e","s">>, <<"w","r","i","t","t","e","n"," ","b","y">>>>,
       <<<<"w","r","o","t","e">>, <<"w","r","i","t","t","e","n"," ","b","y">>>>,
       <<<<"c","r","e","a","t","e">>, <<"c","r","e","a","t","e","d"," ","b","y">>>>,
       <<<<"c","r","e","a","t","e","s">>, <<"c","r","e","a","t","e","d"," ","b","y">>>>,
       <<<<"d","e","s","i","g","n">>, <<"d","e","s","i","g","n","e","d"," ","b","y">>>>,
       <<<<"d","e","s","i","g","n","s">>, <<"d","e","s","i","g","n","e","d"," ","b","y">>>>,
       <<<<"b","u","i","l","d">>, <<"b","u","i","l","t"," ","b","y">>>>,
       <<<<"b","u","i","l","d","s">>, <<"b","u","i","l","t"," ","b","y">>>>,
       <<<<"d","e","v","e","l","o","p">>, <<"d","e","v","e","l","o","p","e","d"," ","b","y">>>>,
       <<<<"d","e","v","e","l","o","p","s">>, <<"d","e","v","e","l","o","p","e","d"," ","b","y">>>>,
       <<<<"i","m","p","l","e","m","e","n","t">>, <<"i","m","p","l","e","m","e","n","t","e","d"," ","b","y">>>>,
       <<<<"i","m","p","l","e","m","e","n","t","s">>, <<"i","m","p","l","e","m","e","n","t","e","d"," ","b","y">>>>,
       <<<<"m","a","n","a","g","e">>, <<"m","a","n","a","g","e","d"," ","b","y">>>>,
       <<<<"m","a","n","a","g","e","s">>, <<"m","a","n","a","g","e","d"," ","b","y">>>>
    }

IrregularKeys == {p[1] : p \in IrregularEntries}

irregular_verbs ==
    [k \in IrregularKeys |-> (CHOOSE p \in IrregularEntries : p[1] = k)[2]]

\* 'aeiou'
Vowels == {"a","e","i","o","u"}

\* 'bcdfghjklmnpqrstvwxz', the letters tried before 't'
TConsonants ==
    {"b","c","d","f","g","h","j","k","l","m","n","p","q","r","s","t","v","w","x","z"}

\* verb_lower = verb.lower(), without the lower()
verb_lower_keepcase(v) == v

\* verb_lower = verb.lower()
verb_lower(v) == lower(v)

\* the consonant+t test with 'p' missing from the letter list
ends_consonant_t_no_p(v) ==
    \E c \in TConsonants \ {"p"} : endswith(v, <<c, "t">>)

\* any(verb_lower.endswith(c + 't') for c in 'bcdfghjklmnpqrstvwxz')
ends_consonant_t(v) ==
    \E c \in TConsonants : endswith(v, <<c, "t">>)

\* the consonant-vowel-consonant test on last_three = verb_lower[-3:]
is_cvc(v) ==
    LET last_three == LastN(v, 3) IN
    /\ last_three[1] \notin Vowels
    /\ last_three[2] \in Vowels
    /\ last_three[3] \notin Vowels \cup {"y"}

\* the 'e' rule appending 'ed by'
rule_e_ed(v) == v \o <<"e","d"," ","b","y">>

\* verb_lower + 'd by'
rule_e(v) == v \o <<"d"," ","b","y">>

\* the 'y' rule keeping the final letter
rule_y_keep(v) == v \o <<"i","e","d"," ","b","y">>

\* verb_lower[:-1] + 'ied by'
rule_y(v) == DropLast(v) \o <<"i","e","d"," ","b","y">>

\* verb_lower + 'ted by'
rule_t(v) == v \o <<"t","e","d"," ","b","y">>

\* verb_lower + verb_lower[-1] + 'ed by'
rule_double(v) == v \o <<v[Len(v)]>> \o <<"e","d"," ","b","y">>

\* verb_lower + 'ed by'
rule_default(v) == v \o <<"e","d"," ","b","y">>

get_inverse_verb(a_verb) ==
    LET v == verb_lower(a_verb) IN
    IF v \in DOMAIN irregular_verbs THEN irregular_verbs[v]
    ELSE IF endswith(v, <<"e">>) THEN rule_e(v)
    ELSE IF endswith(v, <<"y">>) THEN rule_y(v)
    ELSE IF ends_consonant_t(v) THEN rule_t(v)
    ELSE IF Len(v) >= 3
         THEN IF is_cvc(v) THEN rule_double(v) ELSE rule_default(v)
    ELSE rule_default(v)

\* the letters the enumerated verbs are spelled with
VerbAlphabet == {"a","e","p","t","w","x","y","T","E"}

\* verbs of the spec's examples and of the usual doubling cases
ExampleVerbs ==
    { <<"e","r","a","s","e">>,
      <<"a","p","p","l","y">>,
      <<"p","l","a","y">>,
      <<"f","i","x">>,
      <<"s","h","o","w">>,
      <<"s","t","o","p">>,
      <<"a","c","c","e","p","t">>,
      <<"b","y","t">>,
      <<"A","p","p","l","y">>,
      <<"E","R","A","S","E">> }

\* the arguments get_inverse_verb is called with
VerbInputs ==
    Strings(VerbAlphabet, MaxVerbLen)
      \cup IrregularKeys
      \cup {upper(k) : k \in IrregularKeys}
      \cup {<<UpperChar(k[1])>> \o SubSeq(k, 2, Len(k)) : k \in IrregularKeys}
      \cup ExampleVerbs

-----------------------------------------------------------------------------
(* RDFTripleExtractor._safe_uri *)

\* [a-zA-Z0-9 ]
IsAlnumOrSpace(c) ==
    \/ \E i \in 1..26 : c = LowerAlpha[i] \/ c = UpperAlpha[i]
    \/ c \in Digits
    \/ c = " "

\* _safe_uri whose pattern also lets the underscore through: [^a-zA-Z0-9_ ]
_safe_uri_keep_underscore(a_text) ==
    LET kept == SelectSeq(a_text, LAMBDA c : IsAlnumOrSpace(c) \/ c = "_") IN
    [i \in 1..Len(kept) |-> IF kept[i] = " " THEN "_" ELSE LowerChar(kept[i])]

\* re.sub(r'[^a-zA-Z0-9 ]', '', text), then .replace(' ', '_').lower()
_safe_uri(a_text) ==
    LET kept == SelectSeq(a_text, IsAlnumOrSpace) IN
    [i \in 1..Len(kept) |-> IF kept[i] = " " THEN "_" ELSE LowerChar(kept[i])]

-----------------------------------------------------------------------------
(* RDFTripleExtractor.to_rdf_format and the three writers *)

RECURSIVE Concat(_)
\* the concatenation of a sequence of texts
Concat(ts) == IF ts = <<>> THEN <<>> ELSE Head(ts) \o Concat(Tail(ts))

\* re.match(r'^[0-9]+$', obj): one or more digits; "$" also matches before a
\* final newline
matches_digits(obj) ==
    LET core == IF Len(obj) >= 1 /\ obj[Len(obj)] = "\n" THEN DropLast(obj) ELSE obj IN
    /\ Len(core) >= 1
    /\ \A i \in 1..Len(core) : core[i] \in Digits

\* obj.lower() in ["true", "false"]
is_boolean(obj) == lower(obj) \in {<<"t","r","u","e">>, <<"f","a","l","s","e">>}

\* any(char in obj for char in ',."\'(){}[]')
has_literal_char(obj) ==
    \E i \in 1..Len(obj) :
        obj[i] \in {",", ".", "\"", "'", "(", ")", "{", "}", "[", "]"}

RECURSIVE subject_keys_newest_first(_)
\* the keys of the subjects dict with each new key put before the older ones
subject_keys_newest_first(ts) ==
    IF ts = <<>> THEN <<>>
    ELSE LET before == subject_keys_newest_first(DropLast(ts))
             subj   == ts[Len(ts)].subject
         IN  IF \E i \in 1..Len(before) : before[i] = subj
             THEN before
             ELSE <<subj>> \o before

RECURSIVE subject_keys(_)
\* the keys of the subjects dict, in insertion order
subject_keys(ts) ==
    IF ts = <<>> THEN <<>>
    ELSE LET before == subject_keys(DropLast(ts))
             subj   == ts[Len(ts)].subject
         IN  IF \E i \in 1..Len(before) : before[i] = subj
             THEN before
             ELSE Append(before, subj)

\* subjects[subj]: the (predicate, object) pairs appended for subj
subject_pairs(ts, subj) ==
    LET own == SelectSeq(ts, LAMBDA tr : tr.subject = subj) IN
    [i \in 1..Len(own) |-> <<own[i].predicate, own[i].object>>]

\* the object of one Turtle pair
turtle_object(obj) ==
    IF matches_digits(obj) \/ is_boolean(obj) THEN obj
    ELSE IF has_literal_char(obj) THEN <<"\"">> \o obj \o <<"\"">>
    ELSE <<"ex:">> \o _safe_uri(obj)

\* one subject block of the Turtle output
turtle_block(subject, predicates) ==
    <<"ex:">> \o _safe_uri(subject) \o <<"\n">>
      \o Concat([i \in 1..Len(predicates) |->
            <<"    ex:">> \o _safe_uri(predicates[i][1]) \o <<" ">>
              \o turtle_object(predicates[i][2])
              \o (IF i - 1 < Len(predicates) - 1 THEN <<" ;\n">> ELSE <<" .\n\n">>)])

_to_turtle(ts) ==
    LET keys == subject_keys(ts) IN
    <<"@prefix ex: <http://example.org/> .\n\n">>
      \o Concat([k \in 1..Len(keys) |->
            turtle_block(keys[k], subject_pairs(ts, keys[k]))])

\* the object of one N-Triples line
n_triples_object(obj) ==
    IF has_literal_char(obj) \/ matches_digits(obj)
    THEN <<"\"">> \o obj \o <<"\"">>
    ELSE <<"<http://example.org/">> \o _safe_uri(obj) \o <<">">>

_to_n_triples(ts) ==
    Concat([i \in 1..Len(ts) |->
        <<"<http://example.org/">> \o _safe_uri(ts[i].subject)
          \o <<"> <http://example.org/">> \o _safe_uri(ts[i].predicate)
          \o <<"> ">> \o n_triples_object(ts[i].object) \o <<" .\n">>])

\* the child element of one RDF/XML pair
rdf_xml_element(predicate, obj) ==
    LET predicate_id == _safe_uri(predicate) IN
    IF has_literal_char(obj) \/ matches_digits(obj)
    THEN <<"    <ex:">> \o predicate_id \o <<">">> \o obj
           \o <<"</ex:">> \o predicate_id \o <<">\n">>
    ELSE <<"    <ex:">> \o predicate_id
           \o <<" rdf:resource=\"http://example.org/">> \o _safe_uri(obj)
           \o <<"\"/>\n">>

\* one Description element of the RDF/XML output
rdf_xml_description(subject, predicates) ==
    <<"  <rdf:Description rdf:about=\"http://example.org/">>
      \o _safe_uri(subject) \o <<"\">\n">>
      \o Concat([i \in 1..Len(predicates) |->
            rdf_xml_element(predicates[i][1], predicates[i][2])])
      \o <<"  </rdf:Description>\n\n">>

_to_rdf_xml(ts) ==
    LET keys == subject_keys(ts) IN
    << "<?xml version=\"1.0\" encoding=\"UTF-8\"?>\n",
       "<rdf:RDF xmlns:rdf=\"http://www.w3.org/1999/02/22-rdf-syntax-ns#\"\n",
       "         xmlns:ex=\"http://example.org/\">\n\n" >>
      \o Concat([k \in 1..Len(keys) |->
            rdf_xml_description(keys[k], subject_pairs(ts, keys[k]))])
      \o <<"</rdf:RDF>">>

\* the outcome of to_rdf_format: the text returned or the ValueError raised
to_rdf_format(ts, fmt) ==
    IF ts = <<>> THEN Returned(<<>>)
    ELSE IF fmt = "turtle" THEN Returned(_to_turtle(ts))
    ELSE IF fmt = "n-triples" THEN Returned(_to_n_triples(ts))
    ELSE IF fmt = "xml" THEN Returned(_to_rdf_xml(ts))
    ELSE Raised("ValueError", <<"Unsupported format: ", fmt>>)

\* the format arguments tried: the three of the code, the spec's name of the
\* third and one no writer knows
Formats == {"turtle", "n-triples", "xml", "rdf-xml", "json"}

\* the characters of the enumerated texts
TextAlphabet == {"a", "B", "7", " ", "_", "."}

SubjectSet == { <<"s">>, <<"S"," ","t">> }

PredicateSet == { <<"h","a","s"," ","P","a","r","t">> }

\* the objects tried: empty, digits, booleans in two spellings, with a literal
\* character, with a space, with an underscore, plain, with a line break
ObjectSet ==
    { <<>>,
      <<"7">>,
      <<"4","2">>,
      <<"t","r","u","e">>,
      <<"F","a","l","s","e">>,
      <<"v","1",".","0">>,
      <<".">>,
      <<"a"," ","b">>,
      <<"B","_">>,
      <<"s","y","s","t","e","m">>,
      <<"a",".","\n","b">> }

TripleSet == [subject : SubjectSet, predicate : PredicateSet, object : ObjectSet]

\* the objects of the longer lists: one of each class
GroupObjectSet ==
    { <<"4","2">>, <<"v","1",".","0">>, <<"s","y","s","t","e","m">> }

GroupTripleSet == [subject : SubjectSet, predicate : PredicateSet, object : GroupObjectSet]

\* the triple lists to_rdf_format is called with: every object on the lists
\* of at most one triple, every order of subjects on the longer ones
TripleLists ==
    UNION {[1..n -> TripleSet] : n \in 0..1}
      \cup UNION {[1..n -> GroupTripleSet] : n \in 2..MaxTriples}

-----------------------------------------------------------------------------
(* invert_triples *)

\* the column names looked up in a header row
SubjectName == <<"S","u","b","j","e","c","t">>

PredicateName == <<"P","r","e","d","i","c","a","t","e">>

ObjectName == <<"O","b","j","e","c","t">>

\* header.index(name) if name in header else default; columns count from 1 here
column_index(header, name, default) ==
    IF \E i \in 1..Len(header) : header[i] = name
    THEN CHOOSE i \in 1..Len(header) :
            header[i] = name /\ \A j \in 1..(i - 1) : header[j] # name
    ELSE default

\* the rows that pass len(row) >= 3
long_rows(rows) == SelectSeq(rows, LAMBDA row : Len(row) >= 3)

\* a row that passes len(row) >= 3 is shorter than a column index: IndexError
index_error(rows, subj_idx, pred_idx, obj_idx) ==
    \E i \in 1..Len(rows) :
        /\ Len(rows[i]) >= 3
        /\ \E idx \in {subj_idx, pred_idx, obj_idx} : idx > Len(rows[i])

\* the list triples after the reading loop
read_triples(rows, subj_idx, pred_idx, obj_idx) ==
    LET kept == long_rows(rows) IN
    [i \in 1..Len(kept) |-> <<kept[i][subj_idx], kept[i][pred_idx], kept[i][obj_idx]>>]

\* the inverting loop without the swap of subject and object
inverted_triples_unswapped(ts) ==
    [i \in 1..Len(ts) |-> <<ts[i][1], get_inverse_verb(ts[i][2]), ts[i][3]>>]

\* the list inverted_triples after the inverting loop
inverted_triples(ts) ==
    [i \in 1..Len(ts) |-> <<ts[i][3], get_inverse_verb(ts[i][2]), ts[i][1]>>]

\* the outcome of invert_triples on a file: the triples read and the rows
\* written to the output file, or the error printed with no file written
invert_triples(file) ==
    IF ~file.exists
    THEN [read |-> <<>>, out |-> Raised("Input file not found", <<>>)]
    ELSE IF file.sniff = "error" \/ (file.sniff = "header" /\ file.rows = <<>>)
    THEN [read |-> <<>>, out |-> Raised("Error processing CSV file", <<>>)]
    ELSE
      LET has_header == file.sniff = "header"
          header   == IF has_header THEN Head(file.rows) ELSE <<>>
          rows     == IF has_header THEN Tail(file.rows) ELSE file.rows
          subj_idx == IF has_header THEN column_index(header, SubjectName, 1) ELSE 1
          pred_idx == IF has_header THEN column_index(header, PredicateName, 2) ELSE 2
          obj_idx  == IF has_header THEN column_index(header, ObjectName, 3) ELSE 3
      IN  IF index_error(rows, subj_idx, pred_idx, obj_idx)
          THEN [read |-> <<>>, out |-> Raised("Error processing CSV file", <<>>)]
          ELSE LET ts == read_triples(rows, subj_idx, pred_idx, obj_idx) IN
               [read |-> ts,
                out  |-> [kind |-> "written",
                          value |-> (IF has_header
                                     THEN <<<<SubjectName, PredicateName, ObjectName>>>>
                                     ELSE <<>>) \o inverted_triples(ts)]]

\* the row of the spec's example
ExampleRow == << <<"e","n","g","i","n","e","e","r">>, <<"d","e","s","i","g","n","s">>, <<"s","y","s","t","e","m">> >>

\* two rows of n fields: a verb in the second field, letters in the others
LetterRow(n) == [k \in 1..n |-> IF k = 2 THEN <<"f","i","x">> ELSE <<LowerAlpha[k]>>]

OtherRow(n) == [k \in 1..n |-> IF k = 2 THEN <<"S","h","o","w">> ELSE <<LowerAlpha[n + 1 - k]>>]

\* the data rows of the enumerated files: blank, too short, long enough
DataRows ==
    {LetterRow(n) : n \in {0} \cup 2..MaxFields}
      \cup {OtherRow(n) : n \in 2..MaxFields}
      \cup {ExampleRow}

\* first rows that name columns
HeaderRows ==
    { <<SubjectName, PredicateName, ObjectName>>,
      <<ObjectName, PredicateName, SubjectName>>,
      <<<<"I","d">>, SubjectName, PredicateName, ObjectName>> }

\* the rows of the enumerated files
FileRows ==
    LET data == UNION {[1..n -> DataRows] : n \in 0..MaxRows} IN
    data \cup {<<h>> \o d : h \in HeaderRows, d \in data}

\* the verdicts of csv.Sniffer().has_header: True, False, or csv.Error
SniffOutcomes == {"header", "no header", "error"}

\* the input files invert_triples is called on
InputFiles ==
    {[exists |-> FALSE, sniff |-> "error", rows |-> <<>>]}
      \cup {f \in [exists : {TRUE}, sniff : SniffOutcomes, rows : FileRows] :
                f.rows = <<>> => f.sniff = "error"}

-----------------------------------------------------------------------------
(* The dependency parse the precise extractor reads.  A document is the     *)
(* sequence of its tokens; a token is at the position that is its index     *)
(* (token.i, counted from 1 here), and carries its text, its lemma, its     *)
(* part of speech pos_, its relation dep_ and the position of its head.     *)
(* The root of a sentence is its own head.  A span covers the positions     *)
(* start .. end - 1, as a Python slice does.                                *)

\* the value None
None == [kind |-> "none", start |-> 0, end |-> 0]

\* doc[start_idx:end_idx]: the slice is normalised to an end that is no
\* smaller than its start and no larger than the document
Span(d, start_idx, end_idx) ==
    LET first == IF start_idx - 1 < Len(d) THEN start_idx ELSE Len(d) + 1
        last  == IF end_idx - 1 < Len(d) THEN end_idx ELSE Len(d) + 1
    IN  [kind |-> "span", start |-> first,
         end |-> IF last < first THEN first ELSE last]

\* the truth value of a span in a condition: None and the empty span are false
truthy(span) == span.kind = "span" /\ span.start < span.end

\* token.children: the tokens whose head the token is, in document order
children(d, token) ==
    SelectSeq([q \in 1..Len(d) |-> q], LAMBDA q : d[q].head = token /\ q # token)

\* a head attribute that gives back the token itself
head_stays(d, token) ==
    token

\* token.head: the position of the head of a token
head_of(d, token) ==
    d[token].head

\* the test of the while loop of _expand_noun_phrase
walk_continues(d, head) ==
    /\ d[head_of(d, head)].pos \in {"NOUN", "PROPN"}
    /\ d[head].dep \in {"compound", "amod"}

\* the while loop of _expand_noun_phrase: the last head and the last end_idx.
\* The fuel is the number of tokens, which a walk up a tree never exhausts.
RECURSIVE walk(_, _, _, _)
walk(d, head, end_idx, fuel) ==
    IF fuel > 0 /\ walk_continues(d, head)
    THEN walk(d, head_of(d, head), head_of(d, head) + 1, fuel - 1)
    ELSE [head |-> head, end_idx |-> end_idx]

\* the for loop of _expand_noun_phrase over token.doc, from token t on
RECURSIVE scan(_, _, _, _, _, _)
scan(d, token, head, t, start_idx, end_idx) ==
    IF t > Len(d) THEN [start_idx |-> start_idx, end_idx |-> end_idx]
    ELSE IF head_of(d, t) = head \/ head_of(d, t) = token
    THEN IF d[t].dep \in {"det", "amod", "compound", "nummod", "quantmod"} /\ t < start_idx
         THEN scan(d, token, head, t + 1, t, end_idx)
         ELSE IF d[t].dep \in {"amod", "compound"} /\ t >= end_idx
         THEN scan(d, token, head, t + 1, start_idx, t + 1)
         ELSE scan(d, token, head, t + 1, start_idx, end_idx)
    ELSE scan(d, token, head, t + 1, start_idx, end_idx)

_expand_noun_phrase(d, token) ==
    IF d[token].pos \notin {"NOUN", "PROPN", "PRON"} THEN None
    ELSE LET w == walk(d, token, token + 1, Len(d))
             s == scan(d, token, w.head, 1, token, w.end_idx)
         IN  Span(d, s.start_idx, s.end_idx)

\* span.text.strip(): the texts of the span's tokens, in order; the empty
\* text for a span that is None or empty
_get_span_text(d, span) ==
    IF ~truthy(span) THEN <<>>
    ELSE [k \in 1..(span.end - span.start) |-> d[span.start + k - 1].text]

\* a subject finder that takes the first child, whatever its relation
_find_subject_any_child(d, a_verb) ==
    IF children(d, a_verb) = <<>> THEN None
    ELSE _expand_noun_phrase(d, children(d, a_verb)[1])

\* _find_subject: the expansion of the first child that is a subject
_find_subject(d, a_verb) ==
    LET subjects == SelectSeq(children(d, a_verb),
                              LAMBDA c : d[c].dep \in {"nsubj", "nsubjpass"})
    IN  IF subjects = <<>> THEN None ELSE _expand_noun_phrase(d, subjects[1])

\* the objects one preposition child of a verb contributes
RECURSIVE prep_objects(_, _)
prep_objects(d, grandchildren) ==
    IF grandchildren = <<>> THEN <<>>
    ELSE LET prep_obj == _expand_noun_phrase(d, Head(grandchildren))
         IN  (IF d[Head(grandchildren)].dep = "pobj" /\ truthy(prep_obj)
              THEN <<prep_obj>> ELSE <<>>)
             \o prep_objects(d, Tail(grandchildren))

\* the objects the children cs of a verb contribute, child by child
RECURSIVE child_objects(_, _)
child_objects(d, cs) ==
    IF cs = <<>> THEN <<>>
    ELSE LET child == Head(cs)
             obj == _expand_noun_phrase(d, child)
         IN  (IF d[child].dep \in {"dobj", "attr", "pobj"}
              THEN IF truthy(obj) THEN <<obj>> ELSE <<>>
              ELSE IF d[child].dep = "prep"
              THEN prep_objects(d, children(d, child))
              ELSE <<>>)
             \o child_objects(d, Tail(cs))

\* an object finder that reads prepositions as objects and skips theirs
_find_objects_without_prep(d, a_verb) ==
    child_objects(d, SelectSeq(children(d, a_verb), LAMBDA c : d[c].dep # "prep"))

_find_objects(d, a_verb) ==
    child_objects(d, children(d, a_verb))

\* the triples one verb gives with one subject: one for each object
verb_triples(d, a_verb, subject, objects) ==
    [k \in 1..Len(objects) |->
        [subject   |-> _get_span_text(d, subject),
         predicate |-> d[a_verb].lemma,
         object    |-> _get_span_text(d, objects[k])]]

\* the positions of the tokens of a sentence, in order
sent_tokens(s) == [k \in 1..(s.end - s.start) |-> s.start + k - 1]

\* the second loop of _extract_triples_from_sentence, from the tokens ts on
RECURSIVE clause_triples(_, _, _)
clause_triples(d, ts, subject) ==
    IF ts = <<>> THEN <<>>
    ELSE LET token == Head(ts)
             own == _find_subject(d, token)
             clause_subject == IF truthy(own) THEN own ELSE subject
             clause_objects == _find_objects(d, token)
         IN  (IF d[token].dep \in {"ccomp", "xcomp", "advcl"} /\ d[token].pos = "VERB"
                 /\ truthy(clause_subject)
              THEN verb_triples(d, token, clause_subject, clause_objects)
              ELSE <<>>)
             \o clause_triples(d, Tail(ts), subject)

_extract_triples_from_sentence(d, s) ==
    LET roots == SelectSeq(sent_tokens(s),
                           LAMBDA p : d[p].dep = "ROOT" /\ d[p].pos = "VERB")
    IN  IF roots = <<>> THEN <<>>
        ELSE LET root == roots[1]
                 subject == _find_subject(d, root)
             IN  IF ~truthy(subject) THEN <<>>
                 ELSE verb_triples(d, root, subject, _find_objects(d, root))
                      \o clause_triples(d, sent_tokens(s), subject)

-----------------------------------------------------------------------------
(* The documents the precise extractor is run on: a sentence of up to       *)
(* MaxTokens tokens whose heads form a tree, between two one-word           *)
(* sentences, so that the sentence at work starts at position 2.            *)

MaxTokens == 3

\* the n-th ancestor of token p under the heads h
RECURSIVE ancestor(_, _, _)
ancestor(h, p, n) == IF n = 0 THEN p ELSE ancestor(h, h[p], n - 1)

\* the head assignments of n tokens that form a tree: one token is its own
\* head, and every token reaches it
TreeHeads(n) ==
    {h \in [1..n -> 1..n] :
        \E r \in 1..n : /\ h[r] = r
                        /\ \A p \in 1..n : (h[p] = p) => p = r
                        /\ \A p \in 1..n : ancestor(h, p, n) = r}

\* the one-word sentence before and after the sentence at work
Interjection(p) ==
    [text |-> "well", lemma |-> "well", pos |-> "INTJ", dep |-> "ROOT", head |-> p]

\* a part of speech with a relation
Kind(pos, dep) == [pos |-> pos, dep |-> dep]

\* the token at position p, with the texts that belong to that position
Token(p, kind, head) ==
    [text |-> "w" \o ToString(p), lemma |-> "l" \o ToString(p),
     pos |-> kind.pos, dep |-> kind.dep, head |-> head]

\* the documents whose middle sentence has the heads h, a root of one of the
\* kinds rootKinds and other tokens of the kinds in kinds
DocsWithHeads(h, rootKinds, kinds) ==
    LET n == Cardinality(DOMAIN h)
    IN  {[p \in 1..(n + 2) |->
            IF p = 1 \/ p = n + 2 THEN Interjection(p)
            ELSE IF h[p - 1] = p - 1 THEN Token(p, r, p)
            ELSE Token(p, k[p - 1], h[p - 1] + 1)] :
         r \in rootKinds, k \in [{q \in 1..n : h[q] # q} -> kinds]}

\* d is a document with a middle sentence of 1 .. n tokens
IsDocUpTo(d, n, rootKinds, kinds) ==
    \E m \in 1..n : \E h \in TreeHeads(m) : d \in DocsWithHeads(h, rootKinds, kinds)

\* the middle sentence of a document
MiddleSentence(d) == [kind |-> "span", start |-> 2, end |-> Len(d)]

\* the roots of the sentences: a verb, or a noun in a sentence without verb
RootKinds == {Kind("VERB", "ROOT"), Kind("NOUN", "ROOT")}

\* the kinds of token that matter to the noun phrase expander
PhraseKinds ==
    {Kind("NOUN", "compound"), Kind("ADJ", "amod"), Kind("PROPN", "amod"),
     Kind("DET", "det"), Kind("NOUN", "dobj")}

\* the kinds of token that matter to the choice of subjects and objects
ClauseKinds ==
    {Kind("NOUN", "nsubj"), Kind("ADJ", "nsubj"), Kind("NOUN", "dobj"),
     Kind("PROPN", "pobj"), Kind("ADP", "prep"), Kind("VERB", "ccomp"),
     Kind("DET", "det")}

\* a token of an example sentence
Word(w, lemma, pos, dep, head) ==
    [text |-> w, lemma |-> lemma, pos |-> pos, dep |-> dep, head |-> head]

\* the first example of the README's kind: a direct object and the object
\* of a preposition
EngineerDoc ==
    <<Interjection(1),
      Word("The", "the", "DET", "det", 3),
      Word("engineer", "engineer", "NOUN", "nsubj", 4),
      Word("designs", "design", "VERB", "ROOT", 4),
      Word("the", "the", "DET", "det", 6),
      Word("system", "system", "NOUN", "dobj", 4),
      Word("for", "for", "ADP", "prep", 4),
      Word("the", "the", "DET", "det", 9),
      Word("customer", "customer", "NOUN", "pobj", 7),
      Interjection(10)>>

\* a clausal complement with a subject of its own
SaidDoc ==
    <<Interjection(1),
      Word("Alice", "Alice", "PROPN", "nsubj", 3),
      Word("said", "say", "VERB", "ROOT", 3),
      Word("Bob", "Bob", "PROPN", "nsubj", 5),
      Word("built", "build", "VERB", "ccomp", 3),
      Word("rockets", "rocket", "NOUN", "dobj", 5),
      Interjection(7)>>

\* an open complement, which has no subject of its own
WantsDoc ==
    <<Interjection(1),
      Word("Alice", "Alice", "PROPN", "nsubj", 3),
      Word("wants", "want", "VERB", "ROOT", 3),
      Word("to", "to", "PART", "aux", 5),
      Word("build", "build", "VERB", "xcomp", 3),
      Word("rockets", "rocket", "NOUN", "dobj", 5),
      Interjection(7)>>

\* a clausal complement whose subject is no noun
ManyDoc ==
    <<Interjection(1),
      Word("Alice", "Alice", "PROPN", "nsubj", 3),
      Word("said", "say", "VERB", "ROOT", 3),
      Word("many", "many", "ADJ", "nsubj", 5),
      Word("use", "use", "VERB", "ccomp", 3),
      Word("rockets", "rocket", "NOUN", "dobj", 5),
      Interjection(7)>>

\* an attribute with a compound, and an adverbial clause after it
PilotDoc ==
    <<Interjection(1),
      Word("Alice", "Alice", "PROPN", "nsubjpass", 3),
      Word("became", "become", "VERB", "ROOT", 3),
      Word("a", "a", "DET", "det", 6),
      Word("test", "test", "NOUN", "compound", 6),
      Word("pilot", "pilot", "NOUN", "attr", 3),
      Word("flying", "fly", "VERB", "advcl", 3),
      Word("planes", "plane", "NOUN", "dobj", 7),
      Interjection(9)>>

\* a root verb without a subject, over a clause that has one
NoteDoc ==
    <<Interjection(1),
      Word("Note", "note", "VERB", "ROOT", 2),
      Word("that", "that", "SCONJ", "mark", 5),
      Word("Bob", "Bob", "PROPN", "nsubj", 5),
      Word("built", "build", "VERB", "ccomp", 2),
      Word("rockets", "rocket", "NOUN", "dobj", 5),
      Interjection(7)>>

ExampleDocs == {EngineerDoc, SaidDoc, WantsDoc, ManyDoc, PilotDoc, NoteDoc}

-----------------------------------------------------------------------------
(* The locals of one call of _expand_noun_phrase, step by step. *)

NotExpanding ==
    [pc |-> "idle", token |-> 0, head |-> 0, start_idx |-> 0, end_idx |-> 0,
     steps |-> 0, span |-> None]

\* the most steps of the head walk the model follows
MaxWalkSteps == MaxTokens + 2

-----------------------------------------------------------------------------
(* The permissive extractor, extract_triples_with_nlp.  It reads the text,  *)
(* the part of speech and the relation of each token of each sentence.      *)

\* the elements of a list
Range(list) == {list[k] : k \in DOMAIN list}

\* the list subjects after the tokens of a sentence
RECURSIVE subjects_of(_)
subjects_of(tokens) ==
    IF tokens = <<>> THEN <<>>
    ELSE LET token == tokens[Len(tokens)]
         IN  subjects_of(SubSeq(tokens, 1, Len(tokens) - 1))
             \o (IF token.pos \in {"NOUN", "PROPN"}
                    /\ token.dep \notin {"dobj", "pobj", "attr"}
                 THEN <<token.text>> ELSE <<>>)

\* the list objects after the tokens of a sentence
RECURSIVE objects_of(_)
objects_of(tokens) ==
    IF tokens = <<>> THEN <<>>
    ELSE LET token == tokens[Len(tokens)]
         IN  objects_of(SubSeq(tokens, 1, Len(tokens) - 1))
             \o (IF token.pos \in {"NOUN", "PROPN"}
                    /\ token.dep \notin {"nsubj", "nsubjpass"}
                 THEN <<token.text>> ELSE <<>>)

\* the list predicates after the tokens of a sentence
RECURSIVE predicates_of(_)
predicates_of(tokens) ==
    IF tokens = <<>> THEN <<>>
    ELSE LET token == tokens[Len(tokens)]
         IN  predicates_of(SubSeq(tokens, 1, Len(tokens) - 1))
             \o (IF token.pos \notin {"NOUN", "PROPN"} /\ token.pos = "VERB"
                 THEN <<token.text>> ELSE <<>>)

\* the triples one sentence adds to the set: lines 46-52
product_triples(subjects, predicates, objects) ==
    IF subjects # <<>> /\ predicates # <<>> /\ objects # <<>>
    THEN {<<subjects[i], predicates[j], objects[k]>> :
             i \in DOMAIN subjects, j \in DOMAIN predicates, k \in DOMAIN objects}
         \ {t \in Range(subjects) \X Range(predicates) \X Range(objects) : t[1] = t[3]}
    ELSE {}

\* the tokens of all sentences in one list
RECURSIVE all_tokens(_)
all_tokens(sents) ==
    IF sents = <<>> THEN <<>> ELSE Head(sents) \o all_tokens(Tail(sents))

\* a loop that takes the document for one sentence
collect_as_one_sentence(sents) ==
    product_triples(subjects_of(all_tokens(sents)),
                    predicates_of(all_tokens(sents)),
                    objects_of(all_tokens(sents)))

\* the set unique_triples after the loop over the sentences: lines 19-52
RECURSIVE collect(_)
collect(sents) ==
    IF sents = <<>> THEN {}
    ELSE collect(SubSeq(sents, 1, Len(sents) - 1))
         \cup product_triples(subjects_of(sents[Len(sents)]),
                              predicates_of(sents[Len(sents)]),
                              objects_of(sents[Len(sents)]))

\* list(a_set): the elements of the set, once each, in any order
lists_of(a_set) ==
    {list \in [1..Cardinality(a_set) -> a_set] : Range(list) = a_set}

\* the lists extract_triples_with_nlp can return for a document
extract_triples_with_nlp(sents) == lists_of(collect(sents))

\* a token as the permissive extractor sees it
Seen(w, pos, dep) == [text |-> w, pos |-> pos, dep |-> dep]

\* the tokens of the permissive documents: a subject, an object with the
\* same text, a noun of neither role, two verbs and an adjective
SeenTokens ==
    {Seen("a", "NOUN", "nsubj"), Seen("a", "PROPN", "pobj"),
     Seen("b", "NOUN", "compound"), Seen("v", "VERB", "ROOT"),
     Seen("w", "VERB", "xcomp"), Seen("c", "ADJ", "nsubj")}

MaxSentenceTokens == 3
MaxSentences == 2

\* every sentence of up to n tokens
SentencesUpTo(n) == UNION {[1..m -> SeenTokens] : m \in 0..n}

\* the sentences of the documents with more than one sentence
GroupSentences ==
    {<<Seen("a", "NOUN", "nsubj"), Seen("v", "VERB", "ROOT")>>,
     <<Seen("b", "NOUN", "compound")>>,
     <<Seen("a", "NOUN", "nsubj"), Seen("v", "VERB", "ROOT"), Seen("b", "NOUN", "compound")>>,
     <<Seen("b", "NOUN", "compound"), Seen("w", "VERB", "xcomp"), Seen("a", "PROPN", "pobj")>>}

\* the documents: one sentence of any tokens, or up to n sentences of the group
DocumentsUpTo(n, m) ==
    {<<s>> : s \in SentencesUpTo(m)}
    \cup UNION {[1..k -> GroupSentences] : k \in {0} \cup 2..n}

-----------------------------------------------------------------------------
(* Idle values of the variables a specification does not use. *)

IdleVerb == verb = <<>> /\ inverse = NotCalled
IdleSafe == text = <<>> /\ safe = NotCalled /\ resafe = NotCalled
IdleSer  == triples = <<>> /\ format = "turtle" /\ result = NotCalled
IdleInv  == input_csv = NotCalled /\ csv_triples = <<>> /\ output_csv = NotCalled
IdleDoc  == doc = <<>> /\ sent = None
IdleExpand == expand = NotExpanding
IdlePrecise == extracted = NotCalled
IdlePermissive == sentences = <<>> /\ unique_triples = NotCalled
IdleExtractors == IdleDoc /\ IdleExpand /\ IdlePrecise /\ IdlePermissive
IdleWriters == IdleVerb /\ IdleSafe /\ IdleSer /\ IdleInv

-----------------------------------------------------------------------------
(* Specification of get_inverse_verb: one call on one argument. *)

InitVerb ==
    /\ verb \in VerbInputs
    /\ inverse = NotCalled
    /\ IdleSafe /\ IdleSer /\ IdleInv /\ IdleExtractors

GetInverseVerb ==
    /\ inverse = NotCalled
    /\ inverse' = Returned(get_inverse_verb(verb))
    /\ UNCHANGED <<verb, text, safe, resafe, triples, format, result, input_csv, csv_triples, output_csv, extractorVars>>

NextVerb == GetInverseVerb

SpecVerb == InitVerb /\ [][NextVerb]_vars

-----------------------------------------------------------------------------
(* Specification of _safe_uri: one call on a text, then one on its result. *)

InitSafe ==
    /\ text \in Strings(TextAlphabet, MaxTextLen)
    /\ safe = NotCalled
    /\ resafe = NotCalled
    /\ IdleVerb /\ IdleSer /\ IdleInv /\ IdleExtractors

SafeUri ==
    /\ safe = NotCalled
    /\ safe' = Returned(_safe_uri(text))
    /\ UNCHANGED <<verb, inverse, text, resafe, triples, format, result, input_csv, csv_triples, output_csv, extractorVars>>

SafeUriAgain ==
    /\ safe.kind = "returned"
    /\ resafe = NotCalled
    /\ resafe' = Returned(_safe_uri(safe.value))
    /\ UNCHANGED <<verb, inverse, text, safe, triples, format, result, input_csv, csv_triples, output_csv, extractorVars>>

NextSafe == SafeUri \/ SafeUriAgain

SpecSafe == InitSafe /\ [][NextSafe]_vars

-----------------------------------------------------------------------------
(* Specification of to_rdf_format: one call on a triple list and a format. *)

InitSer ==
    /\ triples \in TripleLists
    /\ format \in Formats
    /\ result = NotCalled
    /\ IdleVerb /\ IdleSafe /\ IdleInv /\ IdleExtractors

ToRdfFormat ==
    /\ result = NotCalled
    /\ result' = to_rdf_format(triples, format)
    /\ UNCHANGED <<verb, inverse, text, safe, resafe, triples, format, input_csv, csv_triples, output_csv, extractorVars>>

NextSer == ToRdfFormat

SpecSer == InitSer /\ [][NextSer]_vars

-----------------------------------------------------------------------------
(* Specification of invert_triples: one call on one input file. *)

InitInv ==
    /\ input_csv \in InputFiles
    /\ csv_triples = <<>>
    /\ output_csv = NotCalled
    /\ IdleVerb /\ IdleSafe /\ IdleSer /\ IdleExtractors

InvertTriples ==
    /\ output_csv = NotCalled
    /\ csv_triples' = invert_triples(input_csv).read
    /\ output_csv' = invert_triples(input_csv).out
    /\ UNCHANGED <<verb, inverse, text, safe, resafe, triples, format, result, input_csv, extractorVars>>

NextInv == InvertTriples

SpecInv == InitInv /\ [][NextInv]_vars

-----------------------------------------------------------------------------
(* Specification of _expand_noun_phrase: one call on one token of a         *)
(* sentence, with the head walk taken one iteration at a time.              *)

InitExpand ==
    /\ IsDocUpTo(doc, MaxTokens, RootKinds, PhraseKinds)
    /\ sent = MiddleSentence(doc)
    /\ expand \in {[NotExpanding EXCEPT !.pc = "called", !.token = p] :
                      p \in 2..(Len(doc) - 1)}
    /\ IdlePrecise /\ IdlePermissive /\ IdleWriters

\* lines 319-325: None for a token that is no noun, else the initial locals
ExpandEnter ==
    /\ expand.pc = "called"
    /\ expand' = IF doc[expand.token].pos \notin {"NOUN", "PROPN", "PRON"}
                 THEN [expand EXCEPT !.pc = "returned", !.span = None]
                 ELSE [expand EXCEPT !.pc = "walk", !.head = expand.token,
                                     !.start_idx = expand.token,
                                     !.end_idx = expand.token + 1]
    /\ UNCHANGED <<writerVars, doc, sent, extracted, sentences, unique_triples>>

\* lines 327-329: one iteration of the while loop
ExpandWalk ==
    /\ expand.pc = "walk"
    /\ expand.steps < MaxWalkSteps
    /\ walk_continues(doc, expand.head)
    /\ expand' = [expand EXCEPT !.head = head_of(doc, expand.head),
                                !.end_idx = head_of(doc, expand.head) + 1,
                                !.steps = expand.steps + 1]
    /\ UNCHANGED <<writerVars, doc, sent, extracted, sentences, unique_triples>>

\* lines 327, 331-341: the while loop ends; the for loop and the return
ExpandScan ==
    /\ expand.pc = "walk"
    /\ ~walk_continues(doc, expand.head)
    /\ LET s == scan(doc, expand.token, expand.head, 1,
                     expand.start_idx, expand.end_idx)
       IN  expand' = [expand EXCEPT !.pc = "returned",
                                    !.start_idx = s.start_idx,
                                    !.end_idx = s.end_idx,
                                    !.span = Span(doc, s.start_idx, s.end_idx)]
    /\ UNCHANGED <<writerVars, doc, sent, extracted, sentences, unique_triples>>

NextExpand == ExpandEnter \/ ExpandWalk \/ ExpandScan

SpecExpand == InitExpand /\ [][NextExpand]_vars

\* the interpreter runs the call to its end
FairSpecExpand == SpecExpand /\ WF_vars(NextExpand)

-----------------------------------------------------------------------------
(* Specification of _extract_triples_from_sentence: one call on the middle  *)
(* sentence of a document.                                                  *)

InitPrecise ==
    /\ \/ IsDocUpTo(doc, MaxTokens, RootKinds, ClauseKinds)
       \/ doc \in ExampleDocs
    /\ sent = MiddleSentence(doc)
    /\ extracted = NotCalled
    /\ IdleExpand /\ IdlePermissive /\ IdleWriters

ExtractTriplesFromSentence ==
    /\ extracted = NotCalled
    /\ extracted' = Returned(_extract_triples_from_sentence(doc, sent))
    /\ UNCHANGED <<writerVars, doc, sent, expand, sentences, unique_triples>>

NextPrecise == ExtractTriplesFromSentence

SpecPrecise == InitPrecise /\ [][NextPrecise]_vars

-----------------------------------------------------------------------------
(* Specification of extract_triples_with_nlp: one call on one document,     *)
(* given as the sentences of its parse.                                     *)

InitPermissive ==
    /\ sentences \in DocumentsUpTo(MaxSentences, MaxSentenceTokens)
    /\ unique_triples = NotCalled
    /\ IdleDoc /\ IdleExpand /\ IdlePrecise /\ IdleWriters

ExtractTriplesWithNlp ==
    /\ unique_triples = NotCalled
    /\ \E list \in extract_triples_with_nlp(sentences) :
          unique_triples' = Returned(list)
    /\ UNCHANGED <<writerVars, doc, sent, expand, extracted, sentences>>

NextPermissive == ExtractTriplesWithNlp

SpecPermissive == InitPermissive /\ [][NextPermissive]_vars

-----------------------------------------------------------------------------
(* Properties of get_inverse_verb. *)

\* the value get_inverse_verb has returned
Inverted == inverse.kind = "returned"

\* a consonant letter in the wide sense: every letter that is not a, e, i, o, u
IsConsonant(c) == c \in {LowerAlpha[i] : i \in 1..26} \ Vowels

\* the phrase the irregular table holds for key k
TablePhrase(k) == (CHOOSE p \in IrregularEntries : p[1] = k)[2]

\* lower(verb) is outside the table and ends neither in "e" nor in "y"
PastEarlyRules ==
    /\ lower(verb) \notin IrregularKeys
    /\ ~endswith(lower(verb), <<"e">>)
    /\ ~endswith(lower(verb), <<"y">>)

\* C5: a verb whose lowercased form is a key of the irregular table is
\* answered with the table's phrase for that key, whatever the case of its
\* letters; no ending rule is applied to it.
C5_IrregularTableWins ==
    (Inverted /\ lower(verb) \in IrregularKeys)
        => inverse.value = TablePhrase(lower(verb))

C5_Witness ==
    /\ verb = <<"D","E","S","I","G","N">>
    /\ inverse = Returned(<<"d","e","s","i","g","n","e","d"," ","b","y">>)

\* the last three letters are consonant, vowel, consonant and the final
\* consonant is none of w, x, y
ClaimedDoubling(v) ==
    /\ Len(v) >= 3
    /\ IsConsonant(v[Len(v) - 2])
    /\ v[Len(v) - 1] \in Vowels
    /\ IsConsonant(v[Len(v)])
    /\ v[Len(v)] \notin {"w", "x", "y"}

\* C6: past the table, the "e"/"y" rules and the consonant+"t" rule, the final
\* letter is doubled before "ed by" exactly when the verb has three or more
\* letters ending consonant-vowel-consonant with a final consonant other than
\* w, x, y; every other verb gets "ed by" without doubling.
C6_DoublingExceptWXY ==
    (/\ Inverted
     /\ PastEarlyRules
     /\ ~(Len(verb) >= 2 /\ lower(verb)[Len(verb)] = "t"
            /\ IsConsonant(lower(verb)[Len(verb) - 1])))
        => inverse.value = IF ClaimedDoubling(lower(verb))
                     THEN lower(verb) \o <<lower(verb)[Len(verb)]>>
                            \o <<"e","d"," ","b","y">>
                     ELSE lower(verb) \o <<"e","d"," ","b","y">>

\* lower(verb) ends in "t" preceded by one of the letters of set C
EndsInTAfter(C) ==
    /\ Len(verb) >= 2
    /\ lower(verb)[Len(verb)] = "t"
    /\ lower(verb)[Len(verb) - 1] \in C

\* C7 as stated: past the table and the "e"/"y" rules, a verb ending in "t"
\* preceded by any consonant letter, "y" included, gets "ted by" appended.
C7_TedAfterAnyConsonant ==
    (Inverted /\ PastEarlyRules
       /\ EndsInTAfter({LowerAlpha[i] : i \in 1..26} \ Vowels))
        => inverse.value = lower(verb) \o <<"t","e","d"," ","b","y">>

\* C7 amended: the same for a verb ending in "t" preceded by a consonant
\* letter other than "y"; a verb ending in "yt" is left to the doubling and
\* default rules and gets "ed by".
C7_TedAfterConsonantNotY ==
    /\ (Inverted /\ PastEarlyRules
          /\ EndsInTAfter({LowerAlpha[i] : i \in 1..26} \ (Vowels \cup {"y"})))
           => inverse.value = lower(verb) \o <<"t","e","d"," ","b","y">>
    /\ (Inverted /\ PastEarlyRules /\ EndsInTAfter({"y"}))
           => inverse.value = lower(verb) \o <<"e","d"," ","b","y">>

C7_Witness ==
    /\ verb = <<"a","c","c","e","p","t">>
    /\ inverse = Returned(<<"a","c","c","e","p","t","t","e","d"," ","b","y">>)

\* C8: a verb ending in "e" that the irregular table does not hold is answered
\* with its lowercased form plus "d by".
C8_FinalEAppendsDBy ==
    (Inverted /\ lower(verb) \notin IrregularKeys
       /\ endswith(lower(verb), <<"e">>))
        => inverse.value = lower(verb) \o <<"d"," ","b","y">>

C8_Witness ==
    /\ verb = <<"E","R","A","S","E">>
    /\ inverse = Returned(<<"e","r","a","s","e","d"," ","b","y">>)

\* C9: a verb ending in "y" is answered with its lowercased form, final letter
\* removed, plus "ied by"; one-letter and vowel+"y" verbs included, the
\* irregular table holding no key that ends in "y".
C9_FinalYBecomesIed ==
    (Inverted /\ endswith(lower(verb), <<"y">>))
        => inverse.value = SubSeq(lower(verb), 1, Len(verb) - 1)
                        \o <<"i","e","d"," ","b","y">>

C9_Witness ==
    /\ verb = <<"A","p","p","l","y">>
    /\ inverse = Returned(<<"a","p","p","l","i","e","d"," ","b","y">>)

-----------------------------------------------------------------------------
(* Properties of _safe_uri. *)

\* C1 as stated: a second application of the safe-identifier transform
\* returns what the first returned, for every input text.
C1_SafeUriIdempotent ==
    resafe.kind = "returned" => resafe.value = safe.value

\* C1 amended: the second application returns what the first returned exactly
\* for the texts that hold no space; for a text with a space the first result
\* holds an underscore, which the second application strips.
C1_SafeUriIdempotentWithoutSpace ==
    resafe.kind = "returned" =>
        ((resafe.value = safe.value) <=> (\A i \in 1..Len(text) : text[i] # " "))

C1_Witness ==
    /\ text = <<"B","_",".">>
    /\ safe = Returned(<<"b">>)
    /\ resafe = Returned(<<"b">>)

-----------------------------------------------------------------------------
(* Properties of to_rdf_format. *)

\* text t holds fragment f as a run of consecutive chunks
Contains(t, f) ==
    \E k \in 0..(Len(t) - Len(f)) : SubSeq(t, k + 1, k + Len(f)) = f

\* the three classes of the value classification, decided as the spec orders
\* the tests: digits or true/false first, then the literal characters
ClaimedClass(obj) ==
    IF (Len(obj) >= 1 /\ \A i \in 1..Len(obj) : obj[i] \in Digits)
         \/ lower(obj) \in {<<"t","r","u","e">>, <<"f","a","l","s","e">>}
    THEN "numeric/boolean"
    ELSE IF \E i \in 1..Len(obj) :
              obj[i] \in {",", ".", "\"", "'", "(", ")", "{", "}", "[", "]"}
    THEN "string"
    ELSE "reference"

\* what follows the object of a pair or line in format fmt
ObjectEnds(fmt) ==
    IF fmt = "turtle" THEN {<<" ;\n">>, <<" .\n\n">>}
    ELSE IF fmt = "n-triples" THEN {<<" .\n">>}
    ELSE {<<"</ex:">>}

\* the output of format fmt shows obj bare: neither between double quotes nor
\* as an identifier
ShownUnquoted(fmt, obj) ==
    \E e \in ObjectEnds(fmt) :
        Contains(result.value,
                 <<(IF fmt = "turtle" THEN " " ELSE IF fmt = "n-triples" THEN "> " ELSE ">")>>
                    \o obj \o e)

\* the output of format fmt shows obj as a string literal: between double
\* quotes in Turtle and N-Triples, as element text in RDF/XML
ShownAsString(fmt, obj) ==
    IF fmt = "xml" THEN ShownUnquoted(fmt, obj)
    ELSE \E e \in ObjectEnds(fmt) :
            Contains(result.value,
                     <<(IF fmt = "turtle" THEN " " ELSE "> "), "\"">> \o obj \o <<"\"">> \o e)

\* the output of format fmt shows obj as a reference to the entity named by
\* its safe identifier
ShownAsReference(fmt, obj) ==
    IF fmt = "turtle"
    THEN \E e \in ObjectEnds(fmt) :
            Contains(result.value, <<" ", "ex:">> \o _safe_uri(obj) \o e)
    ELSE IF fmt = "n-triples"
    THEN Contains(result.value,
                  <<"> ", "<http://example.org/">> \o _safe_uri(obj) \o <<">", " .\n">>)
    ELSE Contains(result.value,
                  <<" rdf:resource=\"http://example.org/">> \o _safe_uri(obj) \o <<"\"/>\n">>)

\* C2: for a format outside turtle, n-triples and rdf-xml the call raises the
\* unsupported-format error, whatever the triple list, the empty one included;
\* it returns no text.
C2_UnknownFormatRaises ==
    (result.kind # "not called" /\ format \notin {"turtle", "n-triples", "rdf-xml"})
        => result.kind = "ValueError"

\* C3: in Turtle, N-Triples and RDF/XML output an object made of digits, or
\* equal to true/false whatever its case, is shown bare: not between double
\* quotes and not as a reference identifier.
C3_NumericBooleanUnquoted ==
    (result.kind = "returned" /\ format \in {"turtle", "n-triples", "xml"}) =>
        \A i \in 1..Len(triples) :
            ClaimedClass(triples[i].object) = "numeric/boolean"
                => ShownUnquoted(format, triples[i].object)

\* C4: in every output format each object is treated as exactly one of
\* numeric/boolean literal, string literal and reference: the class the
\* ordered tests give it, shown in that class's form, and, the list holding
\* that one triple, in no other class's form.
C4_ClassificationTotalExclusive ==
    (result.kind = "returned" /\ format \in {"turtle", "n-triples", "xml"}) =>
        \A i \in 1..Len(triples) :
            LET obj == triples[i].object
                cls == ClaimedClass(obj)
                shown == [c \in {"numeric/boolean", "string", "reference"} |->
                            IF c = "numeric/boolean" THEN ShownUnquoted(format, obj)
                            ELSE IF c = "string" THEN ShownAsString(format, obj)
                            ELSE ShownAsReference(format, obj)]
            IN  /\ shown[cls]
                /\ Len(triples) = 1 =>
                     \A c \in {"numeric/boolean", "string", "reference"} :
                         (c # cls /\ ~(format = "xml" /\ "reference" \notin {c, cls}))
                             => ~shown[c]

-----------------------------------------------------------------------------
(* Properties of invert_triples. *)

\* the triple rows of the output file, the header row set aside
WrittenTriples ==
    IF input_csv.sniff = "header" THEN Tail(output_csv.value) ELSE output_csv.value

\* C10: the inverter turns the ordered list of triples into an ordered list of
\* the same length whose i-th triple is (i-th object, get_inverse_verb of the
\* i-th predicate, i-th subject); nothing is reordered, merged or dropped,
\* duplicates included.
C10_InvertedPositionally ==
    output_csv.kind = "written" =>
        /\ Len(WrittenTriples) = Len(csv_triples)
        /\ \A i \in 1..Len(csv_triples) :
              /\ WrittenTriples[i][1] = csv_triples[i][3]
              /\ WrittenTriples[i][2] = get_inverse_verb(csv_triples[i][2])
              /\ WrittenTriples[i][3] = csv_triples[i][1]

C10_Witness ==
    /\ input_csv.sniff = "no header"
    /\ input_csv.rows = <<ExampleRow, ExampleRow>>
    /\ csv_triples = <<ExampleRow, ExampleRow>>
    /\ output_csv.kind = "written"
    /\ output_csv.value =
         << << <<"s","y","s","t","e","m">>, <<"d","e","s","i","g","n","e","d"," ","b","y">>, <<"e","n","g","i","n","e","e","r">> >>,
            << <<"s","y","s","t","e","m">>, <<"d","e","s","i","g","n","e","d"," ","b","y">>, <<"e","n","g","i","n","e","e","r">> >> >>

\* the sniffer has given a verdict on an existing file: the reading loop runs
ReadingStarted ==
    /\ output_csv.kind # "not called"
    /\ input_csv.exists
    /\ input_csv.sniff # "error"

\* the rows of the input file after the header row, if one was taken
DataRowsOfInput ==
    IF input_csv.sniff = "header" THEN Tail(input_csv.rows) ELSE input_csv.rows

\* C11: reading a tabular source, a row of fewer than three fields is dropped
\* with no error, and every row of three or more fields yields one inverted
\* triple in the output; with and without a header row, wherever the header
\* places the names Subject, Predicate and Object.
C11_ShortRowsDroppedLongRowsKept ==
    ReadingStarted =>
        /\ output_csv.kind = "written"
        /\ Len(WrittenTriples) =
             Cardinality({i \in 1..Len(DataRowsOfInput) : Len(DataRowsOfInput[i]) >= 3})

-----------------------------------------------------------------------------
(* Properties of the N-Triples writer. *)

RECURSIVE SplitLines(_)
\* the lines of a text: the runs of chunks that a line break ends, the break
\* left out; the template chunk " .\n" is " ." followed by a line break
SplitLines(t) ==
    IF t = <<>> THEN <<>>
    ELSE LET brk == CHOOSE k \in 1..(Len(t) + 1) :
                       /\ k <= Len(t) => t[k] \in {"\n", " .\n"}
                       /\ \A j \in 1..(k - 1) : t[j] \notin {"\n", " .\n"}
         IN  IF brk > Len(t) THEN <<t>>
             ELSE <<SubSeq(t, 1, brk - 1) \o (IF t[brk] = " .\n" THEN <<" .">> ELSE <<>>)>>
                    \o SplitLines(SubSeq(t, brk + 1, Len(t)))

\* the number of line breaks in a string
RECURSIVE LineBreaks(_)
LineBreaks(s) ==
    IF s = <<>> THEN 0
    ELSE (IF Head(s) = "\n" THEN 1 ELSE 0) + LineBreaks(Tail(s))

\* line l starts with the full identifiers of the subject and predicate of
\* triple tr and ends in " ."
DescribesTriple(l, tr) ==
    LET start == <<"<http://example.org/">> \o _safe_uri(tr.subject)
                   \o <<"> <http://example.org/">> \o _safe_uri(tr.predicate)
                   \o <<"> ">>
    IN  /\ Len(l) > Len(start)
        /\ SubSeq(l, 1, Len(start)) = start
        /\ l[Len(l)] = " ."

\* the call has returned the N-Triples text of a non-empty list
NTriplesWritten ==
    /\ result.kind = "returned"
    /\ format = "n-triples"
    /\ Len(triples) >= 1

\* C12 as stated: the N-Triples text of n >= 1 triples has exactly n lines,
\* the i-th describing the i-th triple with full, safe identifiers and ending
\* in " .".
C12_OneLinePerTriple ==
    NTriplesWritten =>
        LET lines == SplitLines(result.value) IN
        /\ Len(lines) = Len(triples)
        /\ \A i \in 1..Len(triples) : DescribesTriple(lines[i], triples[i])

RECURSIVE SumLineBreaks(_)
\* the line breaks inside the objects that are written as literals
SumLineBreaks(ts) ==
    IF ts = <<>> THEN 0
    ELSE (IF \E k \in 1..Len(Head(ts).object) :
                Head(ts).object[k] \in {",", ".", "\"", "'", "(", ")", "{", "}", "[", "]"}
          THEN LineBreaks(Head(ts).object) ELSE 0)
         + SumLineBreaks(Tail(ts))

\* What the N-Triples writer does keep: an object written as a literal is
\* written verbatim, so each line break in it adds a line to the n of the
\* triples; for a list none of whose objects holds a line break the text is
\* as C12 says.
C12_OneLinePerTripleWithoutBreaks ==
    NTriplesWritten =>
        LET lines == SplitLines(result.value) IN
        /\ Len(lines) = Len(triples) + SumLineBreaks(triples)
        /\ (\A i \in 1..Len(triples) : LineBreaks(triples[i].object) = 0) =>
              \A i \in 1..Len(triples) : DescribesTriple(lines[i], triples[i])

-----------------------------------------------------------------------------
(* Properties of the grouping writers, Turtle and RDF/XML. *)

RECURSIVE SplitEnded(_, _)
\* the pieces of text t that chunk sep ends or separates, sep left out
SplitEnded(t, sep) ==
    IF t = <<>> THEN <<>>
    ELSE IF \A k \in 1..Len(t) : t[k] # sep THEN <<t>>
    ELSE LET brk == CHOOSE k \in 1..Len(t) :
                       t[k] = sep /\ \A j \in 1..(k - 1) : t[j] # sep
         IN  <<SubSeq(t, 1, brk - 1)>> \o SplitEnded(SubSeq(t, brk + 1, Len(t)), sep)

RECURSIVE SplitBefore(_, _)
\* the pieces of text t that start at each occurrence of chunk start
SplitBefore(t, start) ==
    IF t = <<>> THEN <<>>
    ELSE LET nxt == CHOOSE k \in 2..(Len(t) + 1) :
                       /\ k <= Len(t) => t[k] = start
                       /\ \A j \in 2..(k - 1) : t[j] # start
         IN  <<SubSeq(t, 1, nxt - 1)>> \o SplitBefore(SubSeq(t, nxt, Len(t)), start)

\* the members of a set of positions, in increasing order
InOrder(S) ==
    [k \in 1..Cardinality(S) |->
        CHOOSE i \in S : Cardinality({j \in S : j < i}) = k - 1]

\* the positions at which a subject occurs for the first time
FirstOccurrences ==
    {i \in 1..Len(triples) :
        \A j \in 1..(i - 1) : triples[j].subject # triples[i].subject}

\* the positions of the triples of subject s
PositionsOf(s) == {i \in 1..Len(triples) : triples[i].subject = s}

\* Turtle: piece is the pair of triple tr, its object in one of the three forms
IsTurtlePair(piece, tr) ==
    \E form \in { tr.object,
                  <<"\"">> \o tr.object \o <<"\"">>,
                  <<"ex:">> \o _safe_uri(tr.object) } :
        piece = <<"    ex:">> \o _safe_uri(tr.predicate) \o <<" ">> \o form

\* Turtle: block is headed by subject s and holds the pairs of the triples at
\* positions pos, in that order, with " ;\n" between them
IsTurtleBlock(block, s, pos) ==
    LET head == <<"ex:">> \o _safe_uri(s) \o <<"\n">>
        pairs == SplitEnded(SubSeq(block, Len(head) + 1, Len(block)), " ;\n")
    IN  /\ Len(block) > Len(head)
        /\ SubSeq(block, 1, Len(head)) = head
        /\ block[Len(block)] # " ;\n"
        /\ Len(pairs) = Len(pos)
        /\ \A i \in 1..Len(pos) : IsTurtlePair(pairs[i], triples[pos[i]])

\* RDF/XML: piece is the child element of triple tr
IsXmlElement(piece, tr) ==
    LET pid == _safe_uri(tr.predicate) IN
    \/ piece = <<"    <ex:">> \o pid \o <<">">> \o tr.object
                 \o <<"</ex:">> \o pid \o <<">\n">>
    \/ piece = <<"    <ex:">> \o pid \o <<" rdf:resource=\"http://example.org/">>
                 \o _safe_uri(tr.object) \o <<"\"/>\n">>

\* RDF/XML: block is the Description of subject s with the child elements of
\* the triples at positions pos, in that order
IsXmlBlock(block, s, pos) ==
    LET head == <<"  <rdf:Description rdf:about=\"http://example.org/">>
                  \o _safe_uri(s) \o <<"\">\n">>
        elements == SplitBefore(SubSeq(block, Len(head) + 1, Len(block)), "    <ex:")
    IN  /\ Len(block) > Len(head)
        /\ SubSeq(block, 1, Len(head)) = head
        /\ Len(elements) = Len(pos)
        /\ \A i \in 1..Len(pos) : IsXmlElement(elements[i], triples[pos[i]])

\* the subject blocks of the returned text: in Turtle what follows the prefix
\* line, cut after each " .\n\n"; in RDF/XML what lies between the three
\* opening lines and </rdf:RDF>, cut after each </rdf:Description>
SubjectBlocks ==
    IF format = "turtle"
    THEN SplitEnded(Tail(result.value), " .\n\n")
    ELSE SplitEnded(SubSeq(result.value, 4, Len(result.value) - 1),
                    "  </rdf:Description>\n\n")

\* the text ends where its last block ends
LastBlockClosed ==
    IF format = "turtle"
    THEN result.value[Len(result.value)] = " .\n\n"
    ELSE /\ result.value[Len(result.value)] = "</rdf:RDF>"
         /\ result.value[Len(result.value) - 1] = "  </rdf:Description>\n\n"

\* the call has returned the Turtle or RDF/XML text of a non-empty list
GroupedWritten ==
    /\ result.kind = "returned"
    /\ format \in {"turtle", "xml"}
    /\ Len(triples) >= 1

\* C13: in Turtle and in RDF/XML every distinct subject heads exactly one
\* block, the blocks stand in the order in which their subjects first occur,
\* and a block holds all and only its subject's predicate/object pairs in
\* input order; in Turtle ";" separates the pairs of a block and "." follows
\* only the last.
C13_GroupedBySubjectFirstSeen ==
    GroupedWritten =>
        LET firsts == InOrder(FirstOccurrences)
            blocks == SubjectBlocks
        IN  /\ LastBlockClosed
            /\ Len(blocks) = Len(firsts)
            /\ \A k \in 1..Len(firsts) :
                  LET s == triples[firsts[k]].subject IN
                  IF format = "turtle"
                  THEN IsTurtleBlock(blocks[k], s, InOrder(PositionsOf(s)))
                  ELSE IsXmlBlock(blocks[k], s, InOrder(PositionsOf(s)))

\* three triples, the subject of the first coming back after another one
C13_Witness ==
    /\ GroupedWritten
    /\ format = "turtle"
    /\ Len(triples) = 3
    /\ triples[1].subject = <<"S"," ","t">>
    /\ triples[2].subject = <<"s">>
    /\ triples[3].subject = <<"S"," ","t">>
    /\ triples[1].object = <<"4","2">>
    /\ triples[2].object = <<"s","y","s","t","e","m">>
    /\ triples[3].object = <<"v","1",".","0">>
    /\ Tail(result.value) =
         <<"ex:", "s", "_", "t", "\n",
           "    ex:", "h", "a", "s", "_", "p", "a", "r", "t", " ", "4", "2", " ;\n",
           "    ex:", "h", "a", "s", "_", "p", "a", "r", "t", " ", "\"", "v", "1", ".", "0", "\"", " .\n\n",
           "ex:", "s", "\n",
           "    ex:", "h", "a", "s", "_", "p", "a", "r", "t", " ", "ex:", "s", "y", "s", "t", "e", "m", " .\n\n">>
-----------------------------------------------------------------------------
(* Properties of the precise extractor. *)

\* the step-by-step call returns what the function returns
ExpandAgrees ==
    expand.pc = "returned" => expand.span = _expand_noun_phrase(doc, expand.token)

\* _extract_triples_from_sentence has returned
Extracted == extracted.kind = "returned"

\* the tokens of the sentence at work that are its root and a verb
RootVerbs ==
    {p \in sent.start..(sent.end - 1) : doc[p].dep = "ROOT" /\ doc[p].pos = "VERB"}

\* token v has a child that is its nominal subject or passive nominal subject
HasSubjectChild(v) ==
    \E c \in 1..Len(doc) :
        c # v /\ doc[c].head = v /\ doc[c].dep \in {"nsubj", "nsubjpass"}

\* C14: a sentence without a token that is both root and verb, or whose root
\* verb has no nominal-subject or passive-nominal-subject child, yields no
\* triple and no error, the triples of its subordinate clauses included.
C14_NoRootVerbOrNoSubjectNoTriples ==
    (doc # <<>> /\ extracted # NotCalled
        /\ (RootVerbs = {} \/ \A r \in RootVerbs : ~HasSubjectChild(r)))
    => extracted = Returned(<<>>)

\* a root verb without subject whose clausal complement has a subject and an
\* object: nothing is extracted
C14_Witness ==
    /\ doc = NoteDoc
    /\ RootVerbs = {2} /\ ~HasSubjectChild(2) /\ HasSubjectChild(5)
    /\ extracted = Returned(<<>>)

\* the root the extractor takes: the first token that is root and verb
PrimaryRoot == CHOOSE r \in RootVerbs : \A q \in RootVerbs : r <= q

\* the children of token v whose relation is one of deps
ChildrenWith(v, deps) ==
    {c \in 1..Len(doc) : c # v /\ doc[c].head = v /\ doc[c].dep \in deps}

\* the first child of v that is a subject; 0 if it has none
SubjectChild(v) ==
    IF ChildrenWith(v, {"nsubj", "nsubjpass"}) = {} THEN 0
    ELSE CHOOSE c \in ChildrenWith(v, {"nsubj", "nsubjpass"}) :
            \A q \in ChildrenWith(v, {"nsubj", "nsubjpass"}) : c <= q

\* token p has an expansion
Expands(p) == p # 0 /\ _expand_noun_phrase(doc, p) # None

\* the tokens that give verb v an object, each with the child of v it hangs
\* on: a direct object, attribute or prepositional object of v with itself,
\* the prepositional object of a preposition of v with that preposition
ObjectTokens(v) ==
    {<<c, c>> : c \in {q \in ChildrenWith(v, {"dobj", "attr", "pobj"}) : Expands(q)}}
    \cup UNION {{<<c, g>> : g \in {q \in ChildrenWith(c, {"pobj"}) : Expands(q)}} :
                   c \in ChildrenWith(v, {"prep"})}

\* child order: by the child of the verb, then by the token under it
Before(a, b) == a[1] < b[1] \/ (a[1] = b[1] /\ a[2] < b[2])

\* the k-th object token of verb v in child order
ObjectToken(v, k) ==
    (CHOOSE a \in ObjectTokens(v) :
        Cardinality({b \in ObjectTokens(v) : Before(b, a)}) = k - 1)[2]

\* the texts of the tokens of the expansion of token p
ExpansionText(p) ==
    LET span == _expand_noun_phrase(doc, p)
    IN  [k \in 1..(span.end - span.start) |-> doc[span.start + k - 1].text]

\* the positions a span covers
Covered(span) == {p \in 1..Len(doc) : span.start <= p /\ p < span.end}

\* the verbs of subordinate clauses the second loop looks at
ClauseVerbs ==
    {p \in sent.start..(sent.end - 1) :
        doc[p].dep \in {"ccomp", "xcomp", "advcl"} /\ doc[p].pos = "VERB"}

\* the first pass has run: the root verb has a subject that expands
PrimaryPassRuns ==
    /\ Extracted /\ RootVerbs # {}
    /\ Expands(SubjectChild(PrimaryRoot))

\* the text w is the text of one token only
TextOfOneToken(w) == Cardinality({p \in 1..Len(doc) : doc[p].text = w}) = 1

TriplesBefore(t) ==
    Cardinality(ObjectTokens(PrimaryRoot))
    + Cardinality(UNION {{<<u, a>> : a \in ObjectTokens(u)} :
                            u \in {q \in ClauseVerbs : q < t}})

\* C17: in each triple the second pass emits for a verb with relation ccomp,
\* xcomp or advcl, the subject is the verb's own nominal-subject child if it
\* has one, and the primary subject only if it has no nsubj or nsubjpass child.
C17_ClauseSubjectOwnOrInherited ==
    PrimaryPassRuns =>
        \A t \in ClauseVerbs : \A k \in 1..Cardinality(ObjectTokens(t)) :
            /\ TriplesBefore(t) + k <= Len(extracted.value)
            /\ extracted.value[TriplesBefore(t) + k].predicate = doc[t].lemma
            /\ extracted.value[TriplesBefore(t) + k].subject =
                 IF HasSubjectChild(t) THEN ExpansionText(SubjectChild(t))
                 ELSE ExpansionText(SubjectChild(PrimaryRoot))

\* the call of _expand_noun_phrase has returned a span
SpanReturned == expand.pc = "returned" /\ expand.span # None

\* the heads the walk of the call has reached, one for each of its steps
HeadsReached ==
    {ancestor([p \in 1..Len(doc) |-> doc[p].head], expand.token, k) :
        k \in 1..expand.steps}

\* C18: a span the expander returns for a noun, proper noun or pronoun is
\* not empty, lies inside the sentence of its token and covers every head
\* the walk up the compound and amod relations has reached, wherever the
\* modifiers are relative to their heads.
C18_SpanNonEmptyInsideCoversHeads ==
    SpanReturned =>
        /\ expand.span.start < expand.span.end
        /\ sent.start <= expand.span.start /\ expand.span.end <= sent.end
        /\ HeadsReached \subseteq Covered(expand.span)

\* What the expander does keep: the span of a token the two finders pass,
\* a subject or an object, is not empty, covers the token and lies inside
\* its sentence; the walk does not move for such a token.
C18_SpanOfSubjectOrObject ==
    (SpanReturned /\ doc[expand.token].dep \notin {"compound", "amod"}) =>
        /\ expand.token \in Covered(expand.span)
        /\ sent.start <= expand.span.start /\ expand.span.end <= sent.end
        /\ expand.steps = 0

\* C19: the head walk of the expander ends after at most as many steps as
\* the sentence has tokens, and the call returns, for every sentence whose
\* heads form a tree with the root its own head.
C19_HeadWalkTerminates ==
    /\ [](expand.steps <= sent.end - sent.start)
    /\ <>(expand.pc = "returned")

\* a call that has returned after a walk of two steps
C19_Witness ==
    /\ expand.pc = "returned" /\ expand.steps = 2
    /\ expand.head = doc[doc[expand.token].head].head
    /\ doc[expand.head].head = expand.head
-----------------------------------------------------------------------------
(* Properties of the permissive extractor. *)

\* the texts of the nouns and proper nouns of sentence i whose relation is
\* none of deps
NounTexts(i, deps) ==
    {sentences[i][k].text :
        k \in {j \in DOMAIN sentences[i] :
                  /\ sentences[i][j].pos \in {"NOUN", "PROPN"}
                  /\ sentences[i][j].dep \notin deps}}

\* the subject, predicate and object lists of sentence i, as sets
SubjectList(i) == NounTexts(i, {"dobj", "pobj", "attr"})
ObjectList(i) == NounTexts(i, {"nsubj", "nsubjpass"})
PredicateList(i) ==
    {sentences[i][k].text :
        k \in {j \in DOMAIN sentences[i] : sentences[i][j].pos = "VERB"}}

\* the texts of the tokens of the document
DocumentTexts ==
    UNION {{sentences[i][k].text : k \in DOMAIN sentences[i]} : i \in DOMAIN sentences}

\* C15: the permissive extractor returns exactly the triples (s, p, o) with
\* s in the subject list, p in the predicate list and o in the object list
\* of one and the same sentence and s different from o, each of them once.
C15_PermissiveProductPerSentence ==
    unique_triples.kind = "returned" =>
        /\ Range(unique_triples.value) =
             {t \in DocumentTexts \X DocumentTexts \X DocumentTexts :
                 /\ t[1] # t[3]
                 /\ \E i \in DOMAIN sentences :
                       /\ t[1] \in SubjectList(i)
                       /\ t[2] \in PredicateList(i)
                       /\ t[3] \in ObjectList(i)}
        /\ \A j, k \in DOMAIN unique_triples.value :
             j # k => unique_triples.value[j] # unique_triples.value[k]

\* two sentences with one triple each; no triple takes the verb of one
\* sentence with the nouns of the other
C15_Witness ==
    /\ Len(sentences) = 2
    /\ SubjectList(1) = {"a", "b"} /\ PredicateList(1) = {"v"} /\ ObjectList(1) = {"b"}
    /\ SubjectList(2) = {"b"} /\ PredicateList(2) = {"w"} /\ ObjectList(2) = {"b", "a"}
    /\ unique_triples.kind = "returned"
    /\ Len(unique_triples.value) = 2
    /\ Range(unique_triples.value) = {<<"a", "v", "b">>, <<"b", "w", "a">>}

====
